---- MODULE Spec2Model ----
(***************************************************************************)
(* Model of ime_convert.py: the Baidu .bdict/.bcd decoder (parse_baidu),   *)
(* the Sogou .scel decoder (_read_pinyin_table_scel, parse_scel) and the   *)
(* two reducers (_uniq_stable_words, the `best` map of write_rime_yaml).   *)
(*                                                                         *)
(* A byte buffer is a sequence of bytes 0..255 (Python index i is element  *)
(* i+1).  Text is a sequence of code points.  Every loop iteration of the  *)
(* source is one action; the body of an iteration is an operator, so that  *)
(* the same body also defines the whole decode as a function of a buffer.  *)
(***************************************************************************)
EXTENDS Integers, Sequences, FiniteSets, TLC

VARIABLES
  data,       \* the bytes read from the file (immutable during a decode)
  start,      \* start_offset (Baidu) / start_chinese (Sogou)
  start_py,   \* start_py (Sogou)
  off,        \* parse_baidu's cursor `off`
  pos,        \* the `pos` cursor of _read_pinyin_table_scel / parse_scel
  out,        \* the entry list `out`
  pc,         \* position in the program
  py_table,   \* Sogou phase-1 table, index -> syllable
  py_list,    \* pinyin list of the current Sogou group
  same_left,  \* iterations left of `for _ in range(same)`
  idx_reads,  \* ghost: byte ranges read by indexing, <<lo, hi>> = [lo, hi)
  sl_reads,   \* ghost: byte ranges read by slicing
  last,       \* ghost: what the last loop iteration did
  grp,        \* ghost: the current Sogou group: where it starts, entries emitted
  fail_at,    \* ghost: Len(out) at the first failure of a group expansion, else -1
  entries,    \* reducers: the input entry list
  ei,         \* reducers: number of entries consumed by the running loop
  seen,       \* _uniq_stable_words: `seen`
  words,      \* _uniq_stable_words: `out`
  best        \* write_rime_yaml: `best`, as the list of its items in dict order

vars == <<data, start, start_py, off, pos, out, pc, py_table, py_list,
          same_left, idx_reads, sl_reads, last, grp, fail_at,
          entries, ei, seen, words, best>>

decodeVars == <<data, start, start_py, off, pos, out, py_table, py_list,
                same_left, idx_reads, sl_reads, last, grp, fail_at>>

reduceVars == <<entries, ei, seen, words, best>>

----------------------------------------------------------------------------
(* Bounds of the model *)

MaxRecs == 2
MaxStart == 1
MaxGroups == 2
MaxFairPieces == 1
MaxEntries == 3

----------------------------------------------------------------------------
(* Bytes, slices and text decoding *)

Min(a, b) == IF a < b THEN a ELSE b

Concat(ss) ==
  LET RECURSIVE Cat(_)
      Cat(k) == IF k > Len(ss) THEN <<>> ELSE ss[k] \o Cat(k + 1)
  IN Cat(1)

\* b[i]; an index outside the buffer raises IndexError in the source, which
\* the step operators report through their index reads, so the value is moot.
Byte(b, i) == IF i >= 0 /\ i < Len(b) THEN b[i + 1] ELSE 0

\* b[lo:hi] for 0 <= lo: Python clamps a slice to the buffer
Slice(b, lo, hi) == SubSeq(b, lo + 1, Min(hi, Len(b)))

Entry(w, py, f) == [word |-> w, pinyin |-> py, freq |-> f]

IsHighSurrogate(u) == u >= 55296 /\ u <= 56319
IsLowSurrogate(u) == u >= 56320 /\ u <= 57343

\* bytes.decode("utf-16le", errors="ignore"): one code point per 2-byte unit, a
\* surrogate pair is one code point, a lone surrogate and a trailing odd byte
\* are dropped
RECURSIVE DecodeUtf16(_)
DecodeUtf16(b) ==
  IF Len(b) < 2 THEN <<>>
  ELSE LET u == b[1] + 256 * b[2]
           rest == SubSeq(b, 3, Len(b))
       IN IF IsHighSurrogate(u)
          THEN IF Len(b) >= 4 /\ IsLowSurrogate(b[3] + 256 * b[4])
               THEN <<65536 + (u - 55296) * 1024 + (b[3] + 256 * b[4] - 56320)>>
                    \o DecodeUtf16(SubSeq(b, 5, Len(b)))
               ELSE DecodeUtf16(rest)
          ELSE IF IsLowSurrogate(u) THEN DecodeUtf16(rest)
          ELSE <<u>> \o DecodeUtf16(rest)

\* bytes.decode("ascii", errors="ignore"): bytes >= 128 are dropped
DecodeAscii(b) == SelectSeq(b, LAMBDA x : x < 128)

----------------------------------------------------------------------------
(* Baidu .bdict/.bcd *)

BDICT_SM ==
  <<<<99>>, <<100>>, <<98>>, <<102>>, <<103>>, <<104>>, <<99, 104>>, <<106>>,
    <<107>>, <<108>>, <<109>>, <<110>>, <<>>, <<112>>, <<113>>, <<114>>,
    <<115>>, <<116>>, <<115, 104>>, <<122, 104>>, <<119>>, <<120>>, <<121>>,
    <<122>>>>

BDICT_YM ==
  <<<<117, 97, 110, 103>>, <<105, 97, 110, 103>>, <<105, 111, 110, 103>>,
    <<97, 110, 103>>, <<101, 110, 103>>, <<105, 97, 110>>, <<105, 97, 111>>,
    <<105, 110, 103>>, <<111, 110, 103>>, <<117, 97, 105>>, <<117, 97, 110>>,
    <<97, 105>>, <<97, 110>>, <<97, 111>>, <<101, 105>>, <<101, 110>>,
    <<101, 114>>, <<117, 97>>, <<105, 101>>, <<105, 110>>, <<105, 117>>,
    <<111, 117>>, <<105, 97>>, <<117, 101>>, <<117, 105>>, <<117, 110>>,
    <<117, 111>>, <<97>>, <<101>>, <<105>>, <<111>>, <<117>>, <<118>>>>

\* _u16le: EOFError (ok = FALSE) when fewer than 2 bytes are left, else the
\* value and the advanced offset
u16le(b, o) ==
  [ok |-> o + 2 <= Len(b), val |-> Byte(b, o) + 256 * Byte(b, o + 1), off |-> o + 2]

\* remain(): n - off
Remain(b, o) == Len(b) - o

\* the result of one iteration of a decode loop; o is the cursor after the
\* reads of the iteration (Iter_cursor_lost: the cursor is not carried over)
Iter_cursor_lost(o, emit, brk, idx, sl, shape, cause) ==
  [off |-> 0, emit |-> emit, brk |-> brk, idx |-> idx, sl |-> sl,
   shape |-> shape, cause |-> cause]

Iter(o, emit, brk, idx, sl, shape, cause) ==
  [off |-> o, emit |-> emit, brk |-> brk, idx |-> idx, sl |-> sl,
   shape |-> shape, cause |-> cause]

\* `if remain() < 2: break` before the peek
PeekOk_unchecked(b, o) == TRUE

PeekOk(b, o) == ~(Remain(b, o) < 2)

\* the classification of a record by the two peeked bytes
BaiduShape_no_sentinel(peek0, peek1) ==
  IF peek0 = 0 /\ peek1 = 0 THEN "compound"
  ELSE IF peek0 >= Len(BDICT_SM) THEN "english"
  ELSE "standard"

BaiduShape(peek0, peek1) ==
  IF peek0 = 0 /\ peek1 = 0 THEN "compound"
  ELSE IF peek0 >= Len(BDICT_SM) /\ peek0 # 255 THEN "english"
  ELSE "standard"

\* Type 3: off is at the two zero bytes
BaiduCompound(b, o, py_len, freq, idx) ==
  LET w == u16le(b, o + 2)
  IN IF ~w.ok THEN Iter(o + 2, <<>>, TRUE, idx, {}, "compound", "word_len")
     ELSE LET o1 == w.off
              idx1 == idx \cup {<<o + 2, o + 4>>}
              need == py_len * 2 + w.val * 2
          IN IF Remain(b, o1) < need
             THEN Iter(o1, <<>>, TRUE, idx1, {}, "compound", "bytes")
             ELSE LET code == DecodeUtf16(Slice(b, o1, o1 + py_len * 2))
                      o2 == o1 + py_len * 2
                      word == DecodeUtf16(Slice(b, o2, o2 + w.val * 2))
                      o3 == o2 + w.val * 2
                  IN Iter(o3, <<Entry(word, <<code>>, freq)>>, FALSE, idx1,
                          {<<o1, o2>>, <<o2, o3>>}, "compound", "none")

\* Type 2: off is at the byte that is no index of BDICT_SM
BaiduEnglish(b, o, py_len, freq, idx) ==
  LET o1 == o + 1
  IN IF Remain(b, o1) < py_len
     THEN Iter(o1, <<>>, TRUE, idx, {}, "english", "bytes")
     ELSE LET eng == DecodeAscii(Slice(b, o1, o1 + py_len))
          IN Iter(o1 + py_len, <<Entry(eng, <<eng>>, freq)>>, FALSE, idx,
                  {<<o1, o1 + py_len>>}, "english", "none")

\* `sm_i >= len(BDICT_SM) or ym_i >= len(BDICT_YM)` negated
SyllableInRange(sm_i, ym_i) == ~(sm_i >= Len(BDICT_SM) \/ ym_i >= Len(BDICT_YM))

\* the `for _ in range(py_len)` loop of a Type 1 record, from syllable k on
RECURSIVE ReadSyllables(_, _, _, _, _, _)
ReadSyllables(b, o, k, py_len, pinyin, idx) ==
  IF k = py_len
  THEN [ok |-> TRUE, off |-> o, pinyin |-> pinyin, idx |-> idx, cause |-> "none", k |-> k]
  ELSE IF Remain(b, o) < 2
  THEN [ok |-> FALSE, off |-> o, pinyin |-> pinyin, idx |-> idx, cause |-> "pair", k |-> k]
  ELSE LET sm_i == Byte(b, o)
           ym_i == Byte(b, o + 1)
           idx1 == idx \cup {<<o, o + 2>>}
       IN IF sm_i = 255
          THEN ReadSyllables(b, o + 2, k + 1, py_len, Append(pinyin, <<ym_i>>), idx1)
          ELSE IF ~SyllableInRange(sm_i, ym_i)
          THEN [ok |-> FALSE, off |-> o + 2, pinyin |-> pinyin, idx |-> idx1,
                cause |-> IF sm_i >= Len(BDICT_SM) THEN "sm" ELSE "ym", k |-> k]
          ELSE ReadSyllables(b, o + 2, k + 1, py_len,
                             Append(pinyin, BDICT_SM[sm_i + 1] \o BDICT_YM[ym_i + 1]), idx1)

\* `if remain() < need: break` before the word of a Type 1 record
StdWordOk_unchecked(b, o, need) == TRUE

StdWordOk(b, o, need) == ~(Remain(b, o) < need)

\* Type 1
BaiduStandard(b, o, py_len, freq, idx) ==
  LET s == ReadSyllables(b, o, 0, py_len, <<>>, idx)
      need == py_len * 2
  IN IF ~s.ok
     THEN Iter(s.off, <<>>, TRUE, s.idx, {}, "standard",
               IF s.cause = "sm" /\ s.k = 0 THEN "sm_first" ELSE s.cause)
     ELSE IF ~StdWordOk(b, s.off, need)
     THEN Iter(s.off, <<>>, TRUE, s.idx, {}, "standard", "bytes")
     ELSE LET word == DecodeUtf16(Slice(b, s.off, s.off + need))
          IN Iter(s.off + need, <<Entry(word, s.pinyin, freq)>>, FALSE, s.idx,
                  {<<s.off, s.off + need>>}, "standard", "none")

\* one iteration of `while remain() > 4`, entered with remain() > 4
BaiduIter(b, o) ==
  LET h1 == u16le(b, o)
      h2 == u16le(b, h1.off)
  IN IF ~h1.ok THEN Iter(o, <<>>, TRUE, {}, {}, "none", "header")
     ELSE IF ~h2.ok THEN Iter(h1.off, <<>>, TRUE, {<<o, o + 2>>}, {}, "none", "header")
     ELSE LET py_len == h1.val
              freq == h2.val
              o1 == h2.off
              idx0 == {<<o, o + 2>>, <<h1.off, h1.off + 2>>}
          IN IF ~PeekOk(b, o1)
             THEN Iter(o1, <<>>, TRUE, idx0, {}, "none", "peek")
             ELSE LET peek0 == Byte(b, o1)
                      peek1 == Byte(b, o1 + 1)
                      idx1 == idx0 \cup {<<o1, o1 + 2>>}
                      shape == BaiduShape(peek0, peek1)
                  IN CASE shape = "compound" -> BaiduCompound(b, o1, py_len, freq, idx1)
                       [] shape = "english" -> BaiduEnglish(b, o1, py_len, freq, idx1)
                       [] OTHER -> BaiduStandard(b, o1, py_len, freq, idx1)

\* an index read outside the buffer raises IndexError out of the decoder
Crashes(b, r) == \E x \in r.idx : x[1] < 0 \/ x[2] > Len(b)

\* parse_baidu as a function: the entries returned, or "crashed"
RECURSIVE ParseBaiduFrom(_, _, _)
ParseBaiduFrom(b, o, acc) ==
  IF ~(Remain(b, o) > 4) THEN [ok |-> TRUE, out |-> acc]
  ELSE LET r == BaiduIter(b, o)
       IN IF Crashes(b, r) THEN [ok |-> FALSE, out |-> acc]
          ELSE IF r.brk THEN [ok |-> TRUE, out |-> acc]
          ELSE ParseBaiduFrom(b, r.off, acc \o r.emit)

ParseBaidu(b, start_offset) == ParseBaiduFrom(b, start_offset, <<>>)

----------------------------------------------------------------------------
(* Sogou .scel *)

EmptyTable == [x \in {} |-> <<>>]

\* py_table[index] = py
TablePut_keep_first(t, k, v) ==
  [x \in DOMAIN t \cup {k} |-> IF x \in DOMAIN t THEN t[x] ELSE v]

TablePut(t, k, v) == [x \in DOMAIN t \cup {k} |-> IF x = k THEN v ELSE t[x]]

\* py_table.get(idx, "")
TableGet(t, k) == IF k \in DOMAIN t THEN t[k] ELSE <<>>

\* `pos = start_py + 4`
TableStart(sp) == sp + 4

\* `while pos + 4 <= len(data) and pos < start_chinese`
TableLoopCond(b, p, sc) == p + 4 <= Len(b) /\ p < sc

\* one iteration of the table loop of _read_pinyin_table_scel
ScelTableIter(b, p, t) ==
  LET index == Byte(b, p) + 256 * Byte(b, p + 1)
      ln == Byte(b, p + 2) + 256 * Byte(b, p + 3)
      p1 == p + 4
      idx == {<<p, p + 2>>, <<p + 2, p + 4>>}
  IN IF ln <= 0 \/ p1 + ln > Len(b)
     THEN [pos |-> p1, brk |-> TRUE, table |-> t, idx |-> idx, sl |-> {}]
     ELSE [pos |-> p1 + ln, brk |-> FALSE,
           table |-> TablePut(t, index, DecodeUtf16(Slice(b, p1, p1 + ln))),
           idx |-> idx, sl |-> {<<p1, p1 + ln>>}]

\* _read_pinyin_table_scel as a function
RECURSIVE ReadTableFrom(_, _, _, _)
ReadTableFrom(b, p, sc, t) ==
  IF ~TableLoopCond(b, p, sc) THEN t
  ELSE LET r == ScelTableIter(b, p, t)
       IN IF r.brk THEN r.table ELSE ReadTableFrom(b, r.pos, sc, r.table)

ReadPinyinTable(b, sp, sc) == ReadTableFrom(b, TableStart(sp), sc, EmptyTable)

\* _parse_py_indexes_scel: the loop over the 2-byte indices, from byte i on
RECURSIVE PyIndexesFrom(_, _, _, _)
PyIndexesFrom(py_bytes, i, t, acc) ==
  IF i >= Len(py_bytes) THEN acc
  ELSE LET idx == Byte(py_bytes, i) + 256 * Byte(py_bytes, i + 1)
           p == TableGet(t, idx)
       IN PyIndexesFrom(py_bytes, i + 2, t, IF p # <<>> THEN Append(acc, p) ELSE acc)

ParsePyIndexes(py_bytes, t) ==
  LET even == IF Len(py_bytes) % 2 = 1
              THEN SubSeq(py_bytes, 1, Len(py_bytes) - 1)
              ELSE py_bytes
  IN PyIndexesFrom(even, 0, t, <<>>)

\* the head of one iteration of `while remain() > 8`, up to py_list
ScelGroupIter(b, p, t) ==
  LET s == u16le(b, p)
      l == u16le(b, s.off)
  IN IF ~s.ok THEN [pos |-> p, brk |-> TRUE, same |-> 0, py_list |-> <<>>,
                    idx |-> {}, sl |-> {}]
     ELSE IF ~l.ok THEN [pos |-> s.off, brk |-> TRUE, same |-> 0, py_list |-> <<>>,
                         idx |-> {<<p, p + 2>>}, sl |-> {}]
     ELSE LET py_idx_len == l.val
              p1 == l.off
              idx == {<<p, p + 2>>, <<p + 2, p + 4>>}
          IN IF py_idx_len <= 0 \/ Remain(b, p1) < py_idx_len
             THEN [pos |-> p1, brk |-> TRUE, same |-> s.val, py_list |-> <<>>,
                   idx |-> idx, sl |-> {}]
             ELSE [pos |-> p1 + py_idx_len, brk |-> FALSE, same |-> s.val,
                   py_list |-> ParsePyIndexes(Slice(b, p1, p1 + py_idx_len), t),
                   idx |-> idx, sl |-> {<<p1, p1 + py_idx_len>>}]

\* `int.from_bytes(ext[:2], "little", signed=False) if len(ext) >= 2 else 0`
ExtFreq_big_endian(ext) == IF Len(ext) >= 2 THEN ext[2] + 256 * ext[1] ELSE 0

ExtFreq(ext) == IF Len(ext) >= 2 THEN ext[1] + 256 * ext[2] ELSE 0

\* the result of one iteration of `for _ in range(same)`
WordIter(p, emit, brk, idx, sl, cause) ==
  [pos |-> p, emit |-> emit, brk |-> brk, idx |-> idx, sl |-> sl, cause |-> cause]

\* one iteration of `for _ in range(same)`; _u16le_mem is called outside any
\* try, so its read is an index read whether or not the bytes are there
ScelWordIter(b, p, pys) ==
  IF Remain(b, p) < 2 THEN WordIter(p, <<>>, TRUE, {}, {}, "wlen_short")
  ELSE LET wlen == u16le(b, p).val
           p1 == p + 2
           idx1 == {<<p, p + 2>>}
       IN IF wlen <= 0 \/ Remain(b, p1) < wlen
          THEN WordIter(p1, <<>>, TRUE, idx1, {}, IF wlen <= 0 THEN "wlen_zero" ELSE "wlen_big")
          ELSE LET word == DecodeUtf16(Slice(b, p1, p1 + wlen))
                   p2 == p1 + wlen
                   sl1 == {<<p1, p2>>}
               IN IF Remain(b, p2) < 2
                  THEN WordIter(p2, <<>>, TRUE, idx1, sl1, "ext_short")
                  ELSE LET ext_len == u16le(b, p2).val
                           p3 == p2 + 2
                           idx2 == idx1 \cup {<<p2, p2 + 2>>}
                       IN IF ext_len < 0 \/ Remain(b, p3) < ext_len
                          THEN WordIter(p3, <<>>, TRUE, idx2, sl1, "ext_big")
                          ELSE LET ext == Slice(b, p3, p3 + ext_len)
                               IN WordIter(p3 + ext_len,
                                           <<Entry(word, pys, ExtFreq(ext))>>, FALSE,
                                           idx2, sl1 \cup {<<p3, p3 + ext_len>>}, "none")

\* the `for _ in range(same)` loop as a function: k iterations are left
RECURSIVE ScelWordsFrom(_, _, _, _, _)
ScelWordsFrom(b, p, k, pys, acc) ==
  IF k = 0 THEN [ok |-> TRUE, pos |-> p, out |-> acc]
  ELSE LET r == ScelWordIter(b, p, pys)
       IN IF Crashes(b, r) THEN [ok |-> FALSE, pos |-> r.pos, out |-> acc]
          ELSE IF r.brk THEN [ok |-> TRUE, pos |-> r.pos, out |-> acc]
          ELSE ScelWordsFrom(b, r.pos, k - 1, pys, acc \o r.emit)

\* the `while remain() > 8` loop as a function
RECURSIVE ScelGroupsFrom(_, _, _, _)
ScelGroupsFrom(b, p, t, acc) ==
  IF ~(Remain(b, p) > 8) THEN [ok |-> TRUE, out |-> acc]
  ELSE LET g == ScelGroupIter(b, p, t)
       IN IF Crashes(b, g) THEN [ok |-> FALSE, out |-> acc]
          ELSE IF g.brk THEN [ok |-> TRUE, out |-> acc]
          ELSE LET w == ScelWordsFrom(b, g.pos, g.same, g.py_list, acc)
               IN IF ~w.ok THEN [ok |-> FALSE, out |-> w.out]
                  ELSE ScelGroupsFrom(b, w.pos, t, w.out)

\* parse_scel as a function: the entries returned, or "crashed"
ParseScel(b, sp, sc) == ScelGroupsFrom(b, sc, ReadPinyinTable(b, sp, sc), <<>>)

----------------------------------------------------------------------------
(* The reducers *)

\* str.isspace() of one code point
IsSpace(c) ==
  \/ c \in 9..13 \/ c \in 28..32 \/ c \in {133, 160, 5760} \/ c \in 8192..8202
  \/ c \in {8232, 8233, 8239, 8287, 12288}

\* str.strip(): leading and trailing whitespace removed
RECURSIVE LStrip(_)
LStrip(w) == IF w # <<>> /\ IsSpace(w[1]) THEN LStrip(Tail(w)) ELSE w

RECURSIVE RStrip(_)
RStrip(w) ==
  IF w # <<>> /\ IsSpace(w[Len(w)]) THEN RStrip(SubSeq(w, 1, Len(w) - 1)) ELSE w

Strip(w) == RStrip(LStrip(w))

\* `if not w or w in seen: continue`
UniqSkips_unseen(w, sn) == w = <<>>

UniqSkips(w, sn) == w = <<>> \/ w \in sn

\* _uniq_stable_words as a function: the loop from entry k on
RECURSIVE UniqFrom(_, _, _, _)
UniqFrom(es, k, sn, acc) ==
  IF k > Len(es) THEN acc
  ELSE LET w == Strip(es[k].word)
       IN IF UniqSkips(w, sn) THEN UniqFrom(es, k + 1, sn, acc)
          ELSE UniqFrom(es, k + 1, sn \cup {w}, Append(acc, w))

UniqStableWords(es) == UniqFrom(es, 1, {}, <<>>)

\* best.get(e.word): the position of the item of that word, 0 for None
BestFind(b, w) ==
  IF \E k \in 1..Len(b) : b[k].word = w
  THEN CHOOSE k \in 1..Len(b) : b[k].word = w
  ELSE 0

\* `cur is None or (e.freq or 0) > (cur[1] or 0)`
MergeTakes_on_tie(b, e) ==
  IF BestFind(b, e.word) = 0 THEN TRUE ELSE e.freq >= b[BestFind(b, e.word)].freq

MergeTakes(b, e) ==
  IF BestFind(b, e.word) = 0 THEN TRUE ELSE e.freq > b[BestFind(b, e.word)].freq

\* `best[e.word] = (e.pinyin, e.freq)`: a new key goes last, an existing key
\* keeps its place in the dict
BestPut(b, e) ==
  IF BestFind(b, e.word) = 0
  THEN Append(b, Entry(e.word, e.pinyin, e.freq))
  ELSE [b EXCEPT ![BestFind(b, e.word)] = Entry(e.word, e.pinyin, e.freq)]

----------------------------------------------------------------------------
(* The buffers decoded: prefixes of concatenations of well-formed and       *)
(* malformed records, read from aligned and misaligned start offsets        *)

SeqsUpTo(S, n) == UNION {[1..k -> S] : k \in 0..n}

BaiduPieces ==
  { <<1, 0, 5, 0, 0, 27, 65, 0>>,                    \* standard, "ca"
    <<2, 0, 2, 0, 255, 66, 23, 32, 65, 0, 66, 0>>,   \* standard, raw code + "zv"
    <<1, 0, 1, 0, 1, 33, 65, 0>>,                    \* standard, final out of range
    <<2, 0, 1, 0, 1, 0, 24, 0, 65, 0, 66, 0>>,       \* standard, 2nd initial out of range
    <<0, 0, 1, 0>>,                                  \* pinyin_len 0
    <<1, 0, 4, 0, 1, 0, 0, 216>>,                    \* standard, lone surrogate word
    <<1, 0, 3, 0, 0, 0, 1, 0, 97, 0, 65, 0>>,        \* compound
    <<1, 0, 3, 0, 0, 0, 9, 0, 97, 0, 65, 0>>,        \* compound, word_len too large
    <<2, 0, 7, 0, 40, 104, 105>>,                    \* english "hi"
    <<1, 0, 7, 0, 200, 200>> }                       \* english, non-ASCII byte

ScelHeader == <<0, 0, 0, 0>>

ScelTables ==
  { <<>>,
    <<5, 0, 2, 0, 110, 0>> \o <<9, 0, 2, 0, 104, 0>>,               \* 5 "n", 9 "h"
    <<5, 0, 2, 0, 110, 0>> \o <<5, 0, 2, 0, 120, 0>>,               \* index 5 twice
    <<5, 0, 2, 0, 110, 0>> \o <<7, 0, 0, 0>> \o <<9, 0, 2, 0, 104, 0>>, \* length 0
    <<6, 0, 1, 0, 33>> \o <<9, 0, 2, 0, 104, 0>>,                   \* 6 -> ""
    <<9, 0, 2, 0, 104, 0>> \o <<7, 0, 200, 0>>,                     \* length too large
    <<9, 0, 2, 0, 104, 0>> \o <<5, 0, 20, 0>> }                     \* runs into the groups

\* start_py: the table region from its first or from its second record
ScelStartPys == {0, 6}

ScelGroupPieces ==
  { <<1, 0, 4, 0, 5, 0, 9, 0, 2, 0, 65, 0, 2, 0, 10, 0>>,           \* 1 word, freq 10
    <<2, 0, 3, 0, 5, 0, 9, 2, 0, 65, 0, 0, 0, 2, 0, 66, 0, 3, 0, 1, 1, 7>>, \* odd index list
    <<1, 0, 2, 0, 6, 0, 0, 0>>,                                     \* word_len 0
    <<2, 0, 2, 0, 9, 0, 2, 0, 65, 0, 200, 0>>,                      \* ext_len too large
    <<0, 0, 2, 0, 8, 0>>,                                           \* same 0
    <<3, 0, 2, 0, 5, 0, 2, 0, 65, 0, 1, 0, 4>>,                     \* same 3, 1 word
    <<1, 0, 0, 0, 0, 0, 0, 0, 0>> }                                 \* py_idx_len 0

NoLast == [kind |-> "none", at |-> 0, shape |-> "none", cause |-> "none", brk |-> FALSE]
NoGroup == [at |-> -1, same |-> 0, n |-> 0]

InitReduceIdle ==
  /\ entries = <<>> /\ ei = 0 /\ seen = {} /\ words = <<>> /\ best = <<>>

InitDecodeCommon ==
  /\ out = <<>> /\ py_table = EmptyTable /\ py_list = <<>> /\ same_left = 0
  /\ idx_reads = {} /\ sl_reads = {} /\ last = NoLast /\ grp = NoGroup
  /\ fail_at = -1
  /\ InitReduceIdle

\* parse_baidu(path, start_offset): data read, off = start_offset, out = []
BaiduEntered(d, s) ==
  /\ data = d
  /\ start = s /\ start_py = 0
  /\ off = s /\ pos = 0
  /\ pc = "baidu"
  /\ InitDecodeCommon

\* parse_scel(path, start_py, start_chinese): data read, and
\* _read_pinyin_table_scel entered with pos = start_py + 4
ScelEntered(d, sp, sc) ==
  /\ data = d
  /\ start = sc /\ start_py = sp
  /\ off = 0 /\ pos = TableStart(sp)
  /\ pc = "table"
  /\ InitDecodeCommon

InitBaidu ==
  \E ps \in SeqsUpTo(BaiduPieces, MaxRecs), s \in 0..MaxStart :
    \E m \in 0..Len(Concat(ps)) :
      BaiduEntered(SubSeq(Concat(ps), 1, m), s)

InitScel ==
  \E tb \in ScelTables, gs \in SeqsUpTo(ScelGroupPieces, MaxGroups), sp \in ScelStartPys :
    \E m \in 0..Len(ScelHeader \o tb \o Concat(gs)) :
      ScelEntered(SubSeq(ScelHeader \o tb \o Concat(gs), 1, m), sp,
                  Len(ScelHeader) + Len(tb))

\* the untruncated buffers of at most MaxFairPieces records or groups
InitFair ==
  \/ \E ps \in SeqsUpTo(BaiduPieces, MaxFairPieces), s \in 0..MaxStart :
       BaiduEntered(Concat(ps), s)
  \/ \E tb \in ScelTables, gs \in SeqsUpTo(ScelGroupPieces, MaxFairPieces),
        sp \in ScelStartPys :
       ScelEntered(ScelHeader \o tb \o Concat(gs), sp, Len(ScelHeader) + Len(tb))

Init == InitBaidu \/ InitScel

----------------------------------------------------------------------------
(* parse_baidu, one action per iteration of `while remain() > 4` *)

BaiduApply(r) ==
  /\ off' = r.off
  /\ idx_reads' = idx_reads \cup r.idx
  /\ sl_reads' = sl_reads \cup r.sl
  /\ last' = [kind |-> "baidu", at |-> off, shape |-> r.shape, cause |-> r.cause,
              brk |-> r.brk]
  /\ UNCHANGED <<data, start, start_py, pos, py_table, py_list, same_left,
                 grp, fail_at>>
  /\ UNCHANGED reduceVars

\* an iteration that completes a record and appends its entry
BaiduRecord ==
  /\ pc = "baidu" /\ Remain(data, off) > 4
  /\ LET r == BaiduIter(data, off)
     IN /\ ~r.brk /\ ~Crashes(data, r)
        /\ out' = out \o r.emit
        /\ pc' = "baidu"
        /\ BaiduApply(r)

\* an iteration that ends in `break` (or in an uncaught IndexError)
BaiduBreak ==
  /\ pc = "baidu" /\ Remain(data, off) > 4
  /\ LET r == BaiduIter(data, off)
     IN /\ r.brk \/ Crashes(data, r)
        /\ out' = out
        /\ pc' = IF Crashes(data, r) THEN "crashed" ELSE "baidu_done"
        /\ BaiduApply(r)

\* the loop condition is false: return out
BaiduExit ==
  /\ pc = "baidu" /\ ~(Remain(data, off) > 4)
  /\ pc' = "baidu_done"
  /\ UNCHANGED decodeVars
  /\ UNCHANGED reduceVars

----------------------------------------------------------------------------
(* parse_scel: the table loop, then the group loop and its word loop *)

ScelTableApply(r) ==
  /\ pos' = r.pos
  /\ py_table' = r.table
  /\ idx_reads' = idx_reads \cup r.idx
  /\ sl_reads' = sl_reads \cup r.sl
  /\ last' = [kind |-> "table", at |-> pos, shape |-> "none", cause |-> "none",
              brk |-> r.brk]
  /\ UNCHANGED <<data, start, start_py, off, out, py_list, same_left, grp, fail_at>>
  /\ UNCHANGED reduceVars

\* a table record is stored
ScelTableRecord ==
  /\ pc = "table" /\ TableLoopCond(data, pos, start)
  /\ LET r == ScelTableIter(data, pos, py_table)
     IN ~r.brk /\ pc' = "table" /\ ScelTableApply(r)

\* `if ln <= 0 or pos + ln > len(data): break`
ScelTableBreak ==
  /\ pc = "table" /\ TableLoopCond(data, pos, start)
  /\ LET r == ScelTableIter(data, pos, py_table)
     IN r.brk /\ pc' = "table_done" /\ ScelTableApply(r)

\* the loop condition is false
ScelTableEnd ==
  /\ pc = "table" /\ ~TableLoopCond(data, pos, start)
  /\ pc' = "table_done"
  /\ UNCHANGED decodeVars
  /\ UNCHANGED reduceVars

\* back in parse_scel: `pos = start_chinese`
ScelStartGroups ==
  /\ pc = "table_done"
  /\ pc' = "group"
  /\ pos' = start
  /\ UNCHANGED <<data, start, start_py, off, out, py_table, py_list, same_left,
                 idx_reads, sl_reads, last, grp, fail_at>>
  /\ UNCHANGED reduceVars

ScelGroupApply(r) ==
  /\ pos' = r.pos
  /\ idx_reads' = idx_reads \cup r.idx
  /\ sl_reads' = sl_reads \cup r.sl
  /\ last' = [kind |-> "group", at |-> pos, shape |-> "none", cause |-> "none",
              brk |-> r.brk]
  /\ UNCHANGED <<data, start, start_py, off, out, py_table, fail_at>>
  /\ UNCHANGED reduceVars

\* a group header and its index list are read
ScelGroup ==
  /\ pc = "group" /\ Remain(data, pos) > 8
  /\ LET r == ScelGroupIter(data, pos, py_table)
     IN /\ ~r.brk /\ ~Crashes(data, r)
        /\ pc' = "word"
        /\ py_list' = r.py_list
        /\ same_left' = r.same
        /\ grp' = [at |-> pos, same |-> r.same, n |-> 0]
        /\ ScelGroupApply(r)

\* `if py_idx_len <= 0 or remain() < py_idx_len: break`
ScelGroupBreak ==
  /\ pc = "group" /\ Remain(data, pos) > 8
  /\ LET r == ScelGroupIter(data, pos, py_table)
     IN /\ r.brk \/ Crashes(data, r)
        /\ pc' = IF Crashes(data, r) THEN "crashed" ELSE "scel_done"
        /\ UNCHANGED <<py_list, same_left, grp>>
        /\ ScelGroupApply(r)

\* the loop condition is false: return out
ScelExit ==
  /\ pc = "group" /\ ~(Remain(data, pos) > 8)
  /\ pc' = "scel_done"
  /\ UNCHANGED decodeVars
  /\ UNCHANGED reduceVars

ScelWordApply(r) ==
  /\ pos' = r.pos
  /\ idx_reads' = idx_reads \cup r.idx
  /\ sl_reads' = sl_reads \cup r.sl
  /\ last' = [kind |-> "word", at |-> pos, shape |-> "none", cause |-> r.cause,
              brk |-> r.brk]
  /\ UNCHANGED <<data, start, start_py, off, py_table, py_list>>
  /\ UNCHANGED reduceVars

\* an iteration of `for _ in range(same)` that appends an entry
ScelWord ==
  /\ pc = "word" /\ same_left > 0
  /\ LET r == ScelWordIter(data, pos, py_list)
     IN /\ ~r.brk /\ ~Crashes(data, r)
        /\ out' = out \o r.emit
        /\ same_left' = same_left - 1
        /\ grp' = [grp EXCEPT !.n = @ + 1]
        /\ pc' = "word"
        /\ UNCHANGED fail_at
        /\ ScelWordApply(r)

\* an iteration that ends in `break`: the for loop is left, and control is
\* back at the condition of `while remain() > 8`
ScelWordBreak ==
  /\ pc = "word" /\ same_left > 0
  /\ LET r == ScelWordIter(data, pos, py_list)
     IN /\ r.brk \/ Crashes(data, r)
        /\ out' = out
        /\ same_left' = 0
        /\ grp' = grp
        /\ pc' = IF Crashes(data, r) THEN "crashed" ELSE "group"
        /\ fail_at' = IF fail_at = -1 THEN Len(out) ELSE fail_at
        /\ ScelWordApply(r)

\* range(same) is exhausted: back at the condition of `while remain() > 8`
ScelGroupEnd ==
  /\ pc = "word" /\ same_left = 0
  /\ pc' = "group"
  /\ UNCHANGED decodeVars
  /\ UNCHANGED reduceVars

NextBaidu == BaiduRecord \/ BaiduBreak \/ BaiduExit

NextScel ==
  \/ ScelTableRecord \/ ScelTableBreak \/ ScelTableEnd \/ ScelStartGroups
  \/ ScelGroup \/ ScelGroupBreak \/ ScelExit
  \/ ScelWord \/ ScelWordBreak \/ ScelGroupEnd

Next == NextBaidu \/ NextScel

Spec == Init /\ [][Next]_vars

\* the decoders are sequential code: a step that can be taken is taken
FairSpec == InitFair /\ [][Next]_vars /\ WF_vars(Next)

----------------------------------------------------------------------------
(* The reducers, one action per loop iteration *)

UniqWords ==
  {<<>>, <<32>>, <<97>>, <<97, 32>>, <<12288, 97>>, <<98>>, <<97, 32, 98>>}

MergeWords == {<<97>>, <<97, 32>>, <<98>>}
MergePinyins == {<<>>, <<<<110>>, <<104>>>>}
MergeFreqs == {0, 1, 2}

InitDecodeIdle ==
  /\ data = <<>> /\ start = 0 /\ start_py = 0 /\ off = 0 /\ pos = 0
  /\ out = <<>> /\ py_table = EmptyTable /\ py_list = <<>> /\ same_left = 0
  /\ idx_reads = {} /\ sl_reads = {} /\ last = NoLast /\ grp = NoGroup
  /\ fail_at = -1

\* _uniq_stable_words(entries) entered: seen = set(), out = []
InitUniq ==
  /\ entries \in SeqsUpTo({Entry(w, <<>>, 1) : w \in UniqWords}, MaxEntries)
  /\ ei = 0 /\ seen = {} /\ words = <<>> /\ best = <<>>
  /\ pc = "uniq"
  /\ InitDecodeIdle

\* write_rime_yaml(entries, ...) entered: best = {}
InitMerge ==
  /\ entries \in SeqsUpTo({Entry(w, py, f) : w \in MergeWords, py \in MergePinyins,
                                             f \in MergeFreqs}, MaxEntries)
  /\ ei = 0 /\ seen = {} /\ words = <<>> /\ best = <<>>
  /\ pc = "merge"
  /\ InitDecodeIdle

InitReduce == InitUniq \/ InitMerge

\* `seen.add(w); out.append(w)`
UniqKeep ==
  /\ pc = "uniq" /\ ei < Len(entries)
  /\ LET w == Strip(entries[ei + 1].word)
     IN /\ ~UniqSkips(w, seen)
        /\ seen' = seen \cup {w}
        /\ words' = Append(words, w)
  /\ ei' = ei + 1
  /\ UNCHANGED <<pc, entries, best>>
  /\ UNCHANGED decodeVars

\* `continue`
UniqSkip ==
  /\ pc = "uniq" /\ ei < Len(entries)
  /\ UniqSkips(Strip(entries[ei + 1].word), seen)
  /\ ei' = ei + 1
  /\ UNCHANGED <<pc, entries, seen, words, best>>
  /\ UNCHANGED decodeVars

\* `return out`
UniqReturn ==
  /\ pc = "uniq" /\ ei = Len(entries)
  /\ pc' = "uniq_done"
  /\ UNCHANGED reduceVars
  /\ UNCHANGED decodeVars

\* an iteration of `for e in entries` that stores e
MergeTake ==
  /\ pc = "merge" /\ ei < Len(entries)
  /\ MergeTakes(best, entries[ei + 1])
  /\ best' = BestPut(best, entries[ei + 1])
  /\ ei' = ei + 1
  /\ UNCHANGED <<pc, entries, seen, words>>
  /\ UNCHANGED decodeVars

\* an iteration that leaves best alone
MergePass ==
  /\ pc = "merge" /\ ei < Len(entries)
  /\ ~MergeTakes(best, entries[ei + 1])
  /\ ei' = ei + 1
  /\ UNCHANGED <<pc, entries, seen, words, best>>
  /\ UNCHANGED decodeVars

\* the loop is over: best.items() is written in dict order
MergeWrite ==
  /\ pc = "merge" /\ ei = Len(entries)
  /\ pc' = "merge_done"
  /\ UNCHANGED reduceVars
  /\ UNCHANGED decodeVars

NextReduce ==
  \/ UniqKeep \/ UniqSkip \/ UniqReturn
  \/ MergeTake \/ MergePass \/ MergeWrite

SpecReduce == InitReduce /\ [][NextReduce]_vars

----------------------------------------------------------------------------
(* Properties *)

IsPrefix(s, t) == Len(s) <= Len(t) /\ s = SubSeq(t, 1, Len(s))

U16At(b, i) == Byte(b, i) + 256 * Byte(b, i + 1)

\* C1: in parse_scel the first failure inside a group expansion stops the whole
\* decode: the result is exactly the entries emitted before it, and the failing
\* word iteration stays the last loop iteration ever performed (no later group
\* header is read, no further entry is emitted).
C1_ExpansionFailureStopsDecode ==
  fail_at # -1 =>
    /\ Len(out) = fail_at
    /\ last.kind = "word" /\ last.brk
    /\ pc \in {"group", "scel_done"}

\* C2: truncation property of both decoders: once a decode has returned, the
\* decode of every proper prefix of the same buffer, with the same offsets,
\* returns without error a prefix of the entries returned for the buffer.
C2_TruncationGivesPrefix ==
  /\ pc # "crashed"
  /\ pc = "baidu_done" =>
       \A m \in 0..(Len(data) - 1) :
         LET t == ParseBaidu(SubSeq(data, 1, m), start)
         IN t.ok /\ IsPrefix(t.out, out)
  /\ pc = "scel_done" =>
       \A m \in 0..(Len(data) - 1) :
         LET t == ParseScel(SubSeq(data, 1, m), start_py, start)
         IN t.ok /\ IsPrefix(t.out, out)

\* the half of C2 that is about parse_baidu alone
BaiduTruncationGivesPrefix ==
  pc = "baidu_done" =>
    /\ out = ParseBaidu(data, start).out
    /\ \A m \in 0..(Len(data) - 1) :
         LET t == ParseBaidu(SubSeq(data, 1, m), start)
         IN t.ok /\ IsPrefix(t.out, out)

\* a syllable pair that ends a standard record: an initial index >= 24 other
\* than 0xFF, or, under an initial index that is a table index, a final
\* index >= 33
BadPair(sm, ym) == (sm >= 24 /\ sm # 255) \/ (sm # 255 /\ ym >= 33)

\* the record that starts at o (at least 5 bytes are left) cannot be completed
RecordIncomplete(b, o) ==
  LET n == Len(b)
      py_len == U16At(b, o)
      p0 == Byte(b, o + 4)
      p1 == Byte(b, o + 5)
      pairs == Min(py_len, (n - o) \div 2)
  IN IF n - o < 6 THEN TRUE
     ELSE IF p0 = 0 /\ p1 = 0
     THEN IF n - o < 8 THEN TRUE
          ELSE n - (o + 8) < 2 * py_len + 2 * U16At(b, o + 6)
     ELSE IF p0 >= 24 /\ p0 # 255
     THEN n - (o + 5) < py_len
     ELSE \/ \E k \in 0..(pairs - 1) :
               \/ o + 4 + 2 * k + 2 > n
               \/ BadPair(Byte(b, o + 4 + 2 * k), Byte(b, o + 5 + 2 * k))
          \/ pairs < py_len
          \/ n - (o + 4 + 2 * py_len) < 2 * py_len

\* C3: in parse_baidu a record that cannot be completed (bytes run out in any
\* of the three shapes, or a syllable index of a standard record is out of
\* range) ends the decode with the entry list as it was, and a record that can
\* be completed appends exactly one entry and leaves the loop running; after
\* the decode has ended nothing changes any more.
C3_IncompleteRecordEndsDecode ==
  [][ /\ (pc = "baidu" /\ Remain(data, off) > 4) =>
           IF RecordIncomplete(data, off)
           THEN pc' = "baidu_done" /\ out' = out
           ELSE pc' = "baidu" /\ Len(out') = Len(out) + 1 /\ IsPrefix(out, out')
      /\ pc = "baidu_done" => (pc' = "baidu_done" /\ out' = out) ]_vars

\* a standard record that declares more syllables than the buffer holds failed
\* on a missing pair after an earlier record was emitted
C3_Witness ==
  /\ pc = "baidu_done" /\ last.kind = "baidu" /\ last.brk
  /\ last.shape = "standard" /\ last.cause = "pair"
  /\ Len(out) >= 1

\* C4: no read past the buffer end: every byte range indexed or sliced by
\* parse_baidu, _read_pinyin_table_scel and parse_scel lies inside the buffer,
\* no decode ends in an IndexError/EOFError, a start offset at or beyond the
\* buffer end yields an empty result, and the buffer is never modified.
C4_NoReadPastEnd ==
  /\ [](/\ \A r \in idx_reads \cup sl_reads :
             0 <= r[1] /\ r[1] <= r[2] /\ r[2] <= Len(data)
        /\ pc # "crashed"
        /\ (pc \in {"baidu_done", "scel_done"} /\ start >= Len(data)) => out = <<>>
        /\ (pc \in {"table_done", "group", "word", "scel_done"}
              /\ start_py >= Len(data)) => py_table = EmptyTable)
  /\ [][data' = data]_vars

\* a decode that emitted an entry and whose reads reach the last byte exactly
C4_Witness ==
  /\ pc \in {"baidu_done", "scel_done"} /\ Len(out) >= 1
  /\ \E r \in idx_reads \cup sl_reads : r[2] = Len(data)
  /\ last.brk

\* the cursor of each decode loop, step by step
CursorAdvances ==
  [][ /\ off' >= off
      /\ (pc = "baidu" /\ pc' = "baidu") => off' > off
      /\ pc = "table" => pos' >= pos
      /\ (pc = "table" /\ pc' = "table") => pos' > pos
      /\ pc \in {"group", "word"} => pos' >= pos
      /\ (pc = "group" /\ pc' = "word") => pos' > pos ]_vars

\* C5: every decode terminates: in the main loop of parse_baidu, the table loop
\* of _read_pinyin_table_scel and the group loop of parse_scel the cursor never
\* decreases and an iteration that does not leave the loop strictly advances
\* it; the decoder eventually returns.
C5_CursorAdvancesAndDecodeReturns ==
  CursorAdvances /\ <>(pc \in {"baidu_done", "scel_done"})

\* a Sogou decode that returned after at least two entries
C5_Witness == pc = "scel_done" /\ Len(out) >= 2 /\ pos > start

\* C8: the shape of a Baidu record is decided by the two bytes that follow
\* pinyin_len and freq alone: compound iff both are 0, else english iff the
\* first is >= 24 and not 0xFF, else standard; the peeked bytes are not
\* consumed (they are the first syllable pair of a standard record, and an
\* english record's text starts after the first of them), and the first
\* syllable of a standard record never fails the initial-index range check.
C8_ShapeByPeekedBytes ==
  last.kind = "baidu" =>
    LET o == last.at
        py_len == U16At(data, o)
        p0 == Byte(data, o + 4)
        p1 == Byte(data, o + 5)
        e == out[Len(out)]
    IN /\ last.shape = "none" <=> Len(data) - o < 6
       /\ last.shape = "compound" <=> (Len(data) - o >= 6 /\ p0 = 0 /\ p1 = 0)
       /\ last.shape = "english" <=>
            (Len(data) - o >= 6 /\ ~(p0 = 0 /\ p1 = 0) /\ p0 >= 24 /\ p0 # 255)
       /\ last.shape = "standard" <=>
            (Len(data) - o >= 6 /\ ~(p0 = 0 /\ p1 = 0) /\ (p0 < 24 \/ p0 = 255))
       /\ last.cause # "sm_first"
       /\ (last.shape = "standard" /\ ~last.brk /\ py_len >= 1) =>
            e.pinyin[1] = IF p0 = 255 THEN <<p1>>
                          ELSE BDICT_SM[p0 + 1] \o BDICT_YM[p1 + 1]
       /\ (last.shape = "english" /\ ~last.brk) =>
            e.word = SelectSeq(SubSeq(data, o + 6, o + 5 + py_len), LAMBDA x : x < 128)

\* a record whose first peeked byte is 0xFF was decoded as a standard record
C8_Witness ==
  /\ last.kind = "baidu" /\ last.shape = "standard" /\ ~last.brk
  /\ Byte(data, last.at + 4) = 255
  /\ Len(out) >= 1

\* the pinyin sequence of the group whose header is at g, by the table t
GroupPinyin(b, g, t) ==
  LET n2 == U16At(b, g + 2) \div 2
      raw == [k \in 1..n2 |->
                LET i == U16At(b, g + 4 + 2 * (k - 1))
                IN IF i \in DOMAIN t THEN t[i] ELSE <<>>]
  IN SelectSeq(raw, LAMBDA x : x # <<>>)

\* the freq of the word record that starts at w
WordFreq(b, w) ==
  LET wlen == U16At(b, w)
      ext_len == U16At(b, w + 2 + wlen)
  IN IF ext_len < 2 THEN 0 ELSE U16At(b, w + 4 + wlen)

\* C9: in parse_scel the pinyin sequence of a group is the in-order list of the
\* non-empty table syllables of the 16-bit indices in the first
\* 2*floor(py_idx_len/2) bytes of its index list, every entry of the group
\* carries it, at most `same` entries are emitted for the group, and an
\* entry's freq is the 16-bit little-endian value of its first 2 extension
\* bytes, or 0 when ext_len < 2.
C9_GroupPinyinAndFreq ==
  grp.at >= 0 =>
    /\ py_list = GroupPinyin(data, grp.at, py_table)
    /\ grp.same = U16At(data, grp.at)
    /\ grp.n <= grp.same
    /\ grp.n <= Len(out)
    /\ \A j \in 1..grp.n : out[Len(out) - grp.n + j].pinyin = py_list
    /\ (last.kind = "word" /\ ~last.brk) =>
         out[Len(out)].freq = WordFreq(data, last.at)

\* the scenario of the specification: table {5: "n", 9: "h"}, index list
\* 05 00 09 00, extension bytes 0A 00
C9_Witness ==
  /\ grp.at >= 0 /\ grp.n >= 1 /\ last.kind = "word" /\ ~last.brk
  /\ py_list = <<<<110>>, <<104>>>>
  /\ out[Len(out)].freq = 10

\* the table records read from p on, as <<index, syllable>> pairs, in order
RECURSIVE TableRecords(_, _, _)
TableRecords(b, p, sc) ==
  IF Len(b) - p < 4 \/ p >= sc THEN <<>>
  ELSE LET ln == U16At(b, p + 2)
       IN IF ln = 0 \/ ln > Len(b) - (p + 4) THEN <<>>
          ELSE <<<<U16At(b, p), DecodeUtf16(SubSeq(b, p + 5, p + 4 + ln))>>>>
               \o TableRecords(b, p + 4 + ln, sc)

\* index -> the syllable of the last record with that index
TableOf(recs) ==
  [i \in {recs[k][1] : k \in 1..Len(recs)} |->
     recs[CHOOSE k \in 1..Len(recs) :
            /\ recs[k][1] = i
            /\ \A j \in (k + 1)..Len(recs) : recs[j][1] # i][2]]

\* C10: phase 1 starts 4 bytes past start_py, begins a table record only while
\* at least 4 bytes remain and the cursor is below start_chinese, stops at the
\* first record whose length is 0 or exceeds the remaining bytes, and stores
\* index -> syllable with the last record of an index winning; the table is
\* complete before the first group is read and is not modified in phase 2.
C10_TableBuiltBeforeGroups ==
  /\ last.kind = "table" =>
       /\ last.at >= start_py + 4
       /\ Len(data) - last.at >= 4
       /\ last.at < start
  /\ pc = "table" => (grp.at = -1 /\ out = <<>>)
  /\ pc \in {"table_done", "group", "word", "scel_done"} =>
       py_table = TableOf(TableRecords(data, start_py + 4, start))

\* two records with index 5 were read: the group phase sees the second syllable
C10_Witness ==
  /\ pc = "word" /\ grp.n >= 1
  /\ 5 \in DOMAIN py_table /\ py_table[5] = <<120>>
  /\ py_list = <<<<120>>>>

\* the entries consumed so far by the running reducer loop
Consumed == SubSeq(entries, 1, ei)

\* the positions of es that hold the first occurrence of their word
FirstPositions(es) ==
  {j \in 1..Len(es) : \A i \in 1..(j - 1) : es[i].word # es[j].word}

\* the k-th smallest element of a set of positions
KthOf(S, k) == CHOOSE j \in S : Cardinality({i \in S : i <= j}) = k

\* the position in es of the earliest entry, among those of word w, of maximal freq
EarliestMax(es, w) ==
  CHOOSE j \in 1..Len(es) :
    /\ es[j].word = w
    /\ \A i \in 1..Len(es) : es[i].word = w => es[i].freq <= es[j].freq
    /\ \A i \in 1..(j - 1) : es[i].word = w => es[i].freq < es[j].freq

IsTrimOf(t, w) ==
  \E i \in 1..(Len(w) + 1), j \in 0..Len(w) :
    /\ t = SubSeq(w, i, j)
    /\ \A k \in 1..Len(w) : (k < i \/ k > j) => IsSpace(w[k])
    /\ t # <<>> => (~IsSpace(t[1]) /\ ~IsSpace(t[Len(t)]))

\* the first position of es whose trimmed word is t
FirstTrimmed(es, t) ==
  CHOOSE j \in 1..Len(es) :
    /\ IsTrimOf(t, es[j].word)
    /\ \A i \in 1..(j - 1) : ~IsTrimOf(t, es[i].word)

\* C7: the output of _uniq_stable_words is exactly the distinct non-empty
\* whitespace-trimmed words of the entries consumed, in order of first
\* occurrence, no string twice; and running the reducer on entries built from
\* its own output returns that output unchanged.
C7_UniqueStableWords ==
  pc \in {"uniq", "uniq_done"} =>
    LET es == Consumed
    IN /\ \A k \in 1..Len(words) :
            /\ words[k] # <<>>
            /\ \E j \in 1..Len(es) : IsTrimOf(words[k], es[j].word)
       /\ \A j \in 1..Len(es) :
            IsTrimOf(<<>>, es[j].word) \/ \E k \in 1..Len(words) : IsTrimOf(words[k], es[j].word)
       /\ \A k1, k2 \in 1..Len(words) : k1 # k2 => words[k1] # words[k2]
       /\ \A k1, k2 \in 1..Len(words) :
            k1 < k2 => FirstTrimmed(es, words[k1]) < FirstTrimmed(es, words[k2])
       /\ seen = {words[k] : k \in 1..Len(words)}
       /\ pc = "uniq_done" =>
            /\ ei = Len(entries)
            /\ UniqStableWords(entries) = words
            /\ UniqStableWords([k \in 1..Len(words) |-> Entry(words[k], <<>>, 1)]) = words

\* "a ", "b", U+3000 "a": the trimmed duplicate is dropped, the order is kept
C7_Witness ==
  /\ pc = "uniq_done"
  /\ Len(entries) = 3
  /\ entries[1].word = <<97, 32>> /\ entries[2].word = <<98>>
  /\ entries[3].word = <<12288, 97>>
  /\ words = <<<<97>>, <<98>>>>

====
